---- MODULE Spec2Model ----
(***************************************************************************)
(* Social-interaction consistency core of the photo-sharing application:   *)
(* the route handlers for posts, likes and comments, run as concurrent     *)
(* requests over one relational store (User, Post, Like, Comment).         *)
(*                                                                         *)
(* A request suspends only at a store call (an awaited prisma call), so    *)
(* every action below is one store call of a handler together with the     *)
(* in-memory code around it.  The session check and the lookup of the      *)
(* User row are folded into the handler's first action: no handler writes  *)
(* the User table, so these reads commute with every other step.           *)
(***************************************************************************)
EXTENDS Integers, Sequences, FiniteSets, TLC

\* ---------------------------------------------------------------- bounds
MaxPosts == 1      \* post ids ever allocated
MaxLikes == 2      \* like ids ever allocated
MaxComments == 1   \* comment ids ever allocated
MaxLen == 2        \* longest raw comment content
MaxSeedPosts == 2  \* posts in the feed before the client's first fetch
MaxCalls == 4      \* fetches of one traversal of the feed
MaxSeedComments == 2   \* comments on the post before the requests modelled
NumProcs == 3      \* request slots
MaxClicks == 2     \* clicks on one like button

\* ---------------------------------------------------------------- inputs
Users == {"u1", "u2", "u3"}
NoSession == "anonymous"      \* request without a session
StaleSession == "stale"       \* session whose email has no User row
Sessions == Users \cup {NoSession, StaleSession}
NoUser == "nobody"

Procs == 1 .. NumProcs
PostIds == 1 .. MaxPosts
CommentIds == 1 .. MaxComments

Null == "null"
Images == {"", "/uploads/a.jpg"}
Captions == {Null, "", " c"}

Chars == {" ", "a"}
WhiteSpace == {" ", "\t", "\n", "\r"}

RECURSIVE StringsUpTo(_)
StringsUpTo(n) ==
    IF n = 0 THEN {<<>>}
    ELSE LET S == StringsUpTo(n - 1)
         IN  S \cup {Append(s, c) : s \in {t \in S : Len(t) = n - 1}, c \in Chars}

\* JSON values a request body can carry in "content"
JsString(s) == [t |-> "string", s |-> s]
JsNull == [t |-> "null", s |-> <<>>]
JsNumber == [t |-> "number", s |-> <<>>]
Contents == {JsString(s) : s \in StringsUpTo(MaxLen)} \cup {JsNull, JsNumber}

\* ----------------------------------------------------------------- state
VARIABLES
    users,      \* User rows: the ids (a user's email is its key here)
    posts,      \* Post rows: [id, userId, image, caption, createdAt]
    likes,      \* Like rows: [id, userId, postId]
    comments,   \* Comment rows: [id, userId, postId, content, createdAt]
    nextId,     \* next id of each table (ids are never reused)
    now,        \* the store's clock: the latest createdAt handed out
    reqs,       \* the requests in flight, one slot per concurrent handler
    resp,       \* the response sent by the step just taken, if it sent one
    client,     \* the scripted client: its session, its post, the Like rows it found
                \* (the feed client: its limit, its filter, its cursor)
    hist        \* the responses the scripted client has received, in order

store == <<users, posts, likes, comments>>
clientVars == <<client, hist>>
vars == <<users, posts, likes, comments, nextId, now, reqs, resp, client, hist>>

\* --------------------------------------------------------- store queries
\* prisma.user.findUnique({ where: { email } })
UserByEmail(email) == IF email \in users THEN email ELSE NoUser

\* (every id taken for the id of a stored post)
PostAssumed(P, id) == TRUE
\* prisma.post.findUnique({ where: { id } }) is not null
PostExists(P, id) == \E p \in P : p.id = id
PostById(P, id) == CHOOSE p \in P : p.id = id

\* (a lookup keyed by the post alone)
LikeFindOnPost(L, u, p) ==
    IF \E l \in L : l.postId = p THEN (CHOOSE l \in L : l.postId = p).id ELSE 0

\* prisma.like.findUnique({ where: { userId_postId } }): the row's id, 0 for null
LikeFindUnique(L, u, p) ==
    IF \E l \in L : l.userId = u /\ l.postId = p
    THEN (CHOOSE l \in L : l.userId = u /\ l.postId = p).id
    ELSE 0

\* prisma.like.count({ where: { postId } })
LikeCount(L, p) == Cardinality({l \in L : l.postId = p})

\* the Like and Comment rows of a post
LikesOf(L, p) == {l \in L : l.postId = p}
CommentsOf(C, p) == {c \in C : c.postId = p}

CommentExists(C, id) == \E c \in C : c.id = id
CommentById(C, id) == CHOOSE c \in C : c.id = id

\* ---------------------------------------------------- store constraints
\* @@unique([userId, postId]) on Like
UniqueDropped(L, u, p) == TRUE
UniqueOk(L, u, p) == ~ \E l \in L : l.userId = u /\ l.postId = p

\* the foreign key userId -> User.id on Post, Like and Comment
UserKeyOk(U, u) == u \in U

\* the foreign key postId -> Post.id on Like and Comment
ForeignKeyDropped(P, p) == TRUE
ForeignKeyOk(P, p) == PostExists(P, p)

\* onDelete: Cascade on Like.post and Comment.post
CascadeDropped(R, p) == R
Cascade(R, p) == {r \in R : r.postId # p}


\* ------------------------------------------------------- pure functions
IsSpace(c) == c \in WhiteSpace

\* String.prototype.trim
RECURSIVE TrimStart(_)
TrimStart(s) == IF s # <<>> /\ IsSpace(Head(s)) THEN TrimStart(Tail(s)) ELSE s

RECURSIVE TrimEnd(_)
TrimEnd(s) ==
    IF s # <<>> /\ IsSpace(s[Len(s)]) THEN TrimEnd(SubSeq(s, 1, Len(s) - 1)) ELSE s

TrimIdentity(s) == s
Trim(s) == TrimEnd(TrimStart(s))

\* the session check of every mutating handler: !session?.user?.email
AuthSkipped(session) == TRUE
Authenticated(session) == session # NoSession

\* JavaScript truthiness of a content value: !content holds for null and ""
Truthy(v) == v.t = "number" \/ (v.t = "string" /\ v.s # <<>>)

\* caption || null
CaptionOrNull(caption) == IF caption = "" THEN Null ELSE caption

\* the owner check of PATCH and DELETE /api/posts/[id]:
\* post.user.email !== session.user.email  (a user's email is its key here)
OwnerCheckDropped(post, session) == TRUE
IsOwner(post, session) == post.userId = session

\* the permission check of DELETE /api/comments/[id]
AuthorOnly(comment, postOwner, user) == comment.userId = user
MayDeleteComment(comment, postOwner, user) ==
    comment.userId = user \/ postOwner = user

PostOwner(P, id) == IF PostExists(P, id) THEN PostById(P, id).userId ELSE NoUser

\* -------------------------------------------------------------- requests
Idle ==
    [op |-> "none", pc |-> "idle", user |-> NoUser, target |-> 0,
     caption |-> Null, content |-> <<>>, existingLike |-> 0, liked |-> FALSE]

NoResp == [op |-> "none", status |-> 0, error |-> "", liked |-> FALSE, likeCount |-> 0]

\* NextResponse.json(...): the handler returns and its slot is free again
Reply(r, op, status, error) ==
    /\ reqs' = [reqs EXCEPT ![r] = Idle]
    /\ resp' = [op |-> op, status |-> status, error |-> error,
                liked |-> FALSE, likeCount |-> 0]

\* a step that returns nothing yet
Silent == resp' = NoResp

Proceed(r, op, pc, user, target) ==
    /\ reqs' = [reqs EXCEPT ![r] =
                    [Idle EXCEPT !.op = op, !.pc = pc, !.user = user, !.target = target]]
    /\ Silent

At(r, op, pc) == reqs[r].op = op /\ reqs[r].pc = pc

Init ==
    /\ users = Users
    /\ posts = {}
    /\ likes = {}
    /\ comments = {}
    /\ nextId = [post |-> 1, like |-> 1, comment |-> 1]
    /\ now = 0
    /\ reqs = [r \in Procs |-> Idle]
    /\ resp = NoResp
    /\ client = [session |-> NoSession, postId |-> 0, initialLikes |-> {}]
    /\ hist = <<>>

\* ------------------------------------------- POST /api/posts/[id]/like
\* session check, user lookup, post lookup
ToggleLikeFindPost(r, session, postId) ==
    /\ reqs[r].pc = "idle"
    /\ IF ~ Authenticated(session)
       THEN Reply(r, "toggleLike", 401, "unauthorized")
       ELSE IF UserByEmail(session) = NoUser
       THEN Reply(r, "toggleLike", 404, "user_not_found")
       ELSE IF ~ PostExists(posts, postId)
       THEN Reply(r, "toggleLike", 404, "post_not_found")
       ELSE Proceed(r, "toggleLike", "findLike", UserByEmail(session), postId)
    /\ UNCHANGED <<store, nextId, now, clientVars>>

\* const existingLike = await prisma.like.findUnique(...)
ToggleLikeFindLike(r) ==
    /\ At(r, "toggleLike", "findLike")
    /\ reqs' = [reqs EXCEPT ![r].pc = "write",
                            ![r].existingLike =
                                LikeFindUnique(likes, reqs[r].user, reqs[r].target)]
    /\ Silent
    /\ UNCHANGED <<store, nextId, now, clientVars>>

\* prisma.like.delete({ where: { id: existingLike.id } }), or
\* prisma.like.create({ data: { userId, postId } }); a rejected call throws
\* and the catch block answers 500
ToggleLikeWrite(r) ==
    /\ At(r, "toggleLike", "write")
    /\ LET q == reqs[r] IN
       IF q.existingLike # 0
       THEN IF \E l \in likes : l.id = q.existingLike
            THEN /\ likes' = {l \in likes : l.id # q.existingLike}
                 /\ reqs' = [reqs EXCEPT ![r].pc = "count", ![r].liked = FALSE]
                 /\ Silent
                 /\ UNCHANGED nextId
            ELSE /\ Reply(r, "toggleLike", 500, "internal")
                 /\ UNCHANGED <<likes, nextId>>
       ELSE IF /\ UserKeyOk(users, q.user)
               /\ ForeignKeyOk(posts, q.target)
               /\ UniqueOk(likes, q.user, q.target)
            THEN /\ nextId.like <= MaxLikes
                 /\ likes' = likes \cup
                        {[id |-> nextId.like, userId |-> q.user, postId |-> q.target]}
                 /\ nextId' = [nextId EXCEPT !.like = @ + 1]
                 /\ reqs' = [reqs EXCEPT ![r].pc = "count", ![r].liked = TRUE]
                 /\ Silent
            ELSE /\ Reply(r, "toggleLike", 500, "internal")
                 /\ UNCHANGED <<likes, nextId>>
    /\ UNCHANGED <<users, posts, comments, now, clientVars>>

\* const likeCount = await prisma.like.count(...); the 200 response
ToggleLikeCount(r) ==
    /\ At(r, "toggleLike", "count")
    /\ reqs' = [reqs EXCEPT ![r] = Idle]
    /\ resp' = [op |-> "toggleLike", status |-> 200, error |-> "",
                liked |-> reqs[r].liked,
                likeCount |-> LikeCount(likes, reqs[r].target)]
    /\ UNCHANGED <<store, nextId, now, clientVars>>

\* ---------------------------------------------------- POST /api/posts
\* dt: whether the clock has moved on since the last row was stamped
CreatePost(r, session, image, caption, dt) ==
    /\ reqs[r].pc = "idle"
    /\ IF ~ Authenticated(session)
       THEN Reply(r, "createPost", 401, "unauthorized") /\ UNCHANGED <<posts, nextId, now>>
       ELSE IF image = ""
       THEN Reply(r, "createPost", 400, "image_required") /\ UNCHANGED <<posts, nextId, now>>
       ELSE IF UserByEmail(session) = NoUser
       THEN Reply(r, "createPost", 404, "user_not_found") /\ UNCHANGED <<posts, nextId, now>>
       ELSE /\ nextId.post <= MaxPosts
            /\ posts' = posts \cup
                   {[id |-> nextId.post, userId |-> UserByEmail(session), image |-> image,
                     caption |-> CaptionOrNull(caption), createdAt |-> now + dt]}
            /\ nextId' = [nextId EXCEPT !.post = @ + 1]
            /\ now' = now + dt
            /\ Reply(r, "createPost", 201, "")
    /\ UNCHANGED <<users, likes, comments, clientVars>>

\* ----------------------------------------------- PATCH /api/posts/[id]
UpdatePostFind(r, session, id, caption) ==
    /\ reqs[r].pc = "idle"
    /\ IF ~ Authenticated(session)
       THEN Reply(r, "updatePost", 401, "unauthorized")
       ELSE IF ~ PostExists(posts, id)
       THEN Reply(r, "updatePost", 404, "post_not_found")
       ELSE IF ~ IsOwner(PostById(posts, id), session)
       THEN Reply(r, "updatePost", 403, "forbidden")
       ELSE /\ reqs' = [reqs EXCEPT ![r] =
                    [Idle EXCEPT !.op = "updatePost", !.pc = "update", !.user = session,
                                 !.target = id, !.caption = caption]]
            /\ Silent
    /\ UNCHANGED <<store, nextId, now, clientVars>>

\* (an update whose data also carries the image of the request body)
PatchWholeBody(p, caption) == [p EXCEPT !.caption = CaptionOrNull(caption), !.image = ""]
\* data: { caption: caption || null }: the row with the one column replaced
PatchCaption(p, caption) == [p EXCEPT !.caption = CaptionOrNull(caption)]

\* prisma.post.update({ where: { id }, data: { caption: caption || null } })
UpdatePostUpdate(r) ==
    /\ At(r, "updatePost", "update")
    /\ LET q == reqs[r] IN
       IF PostExists(posts, q.target)
       THEN /\ posts' = {IF p.id = q.target
                         THEN PatchCaption(p, q.caption)
                         ELSE p : p \in posts}
            /\ Reply(r, "updatePost", 200, "")
       ELSE /\ Reply(r, "updatePost", 500, "internal")
            /\ UNCHANGED posts
    /\ UNCHANGED <<users, likes, comments, nextId, now, clientVars>>

\* ---------------------------------------------- DELETE /api/posts/[id]
DeletePostFind(r, session, id) ==
    /\ reqs[r].pc = "idle"
    /\ IF ~ Authenticated(session)
       THEN Reply(r, "deletePost", 401, "unauthorized")
       ELSE IF ~ PostExists(posts, id)
       THEN Reply(r, "deletePost", 404, "post_not_found")
       ELSE IF ~ IsOwner(PostById(posts, id), session)
       THEN Reply(r, "deletePost", 403, "forbidden")
       ELSE Proceed(r, "deletePost", "delete", session, id)
    /\ UNCHANGED <<store, nextId, now, clientVars>>

\* prisma.post.delete({ where: { id } }): one statement, the store removes
\* the row and, by the cascade, the Like and Comment rows that reference it
DeletePostDelete(r) ==
    /\ At(r, "deletePost", "delete")
    /\ LET q == reqs[r] IN
       IF PostExists(posts, q.target)
       THEN /\ posts' = {p \in posts : p.id # q.target}
            /\ likes' = Cascade(likes, q.target)
            /\ comments' = Cascade(comments, q.target)
            /\ Reply(r, "deletePost", 200, "")
       ELSE /\ Reply(r, "deletePost", 500, "internal")
            /\ UNCHANGED <<posts, likes, comments>>
    /\ UNCHANGED <<users, nextId, now, clientVars>>

\* ------------------------------------- POST /api/posts/[id]/comments
\* (the lookups made ahead of the validation of the content)
CreateCommentLookupFirst(r, session, postId, content) ==
    /\ reqs[r].pc = "idle"
    /\ IF ~ Authenticated(session)
       THEN Reply(r, "createComment", 401, "unauthorized")
       ELSE IF UserByEmail(session) = NoUser
       THEN Reply(r, "createComment", 404, "user_not_found")
       ELSE IF ~ PostExists(posts, postId)
       THEN Reply(r, "createComment", 404, "post_not_found")
       ELSE IF ~ Truthy(content) \/ content.t # "string"
       THEN Reply(r, "createComment", 400, "content_required")
       ELSE IF Len(Trim(content.s)) = 0
       THEN Reply(r, "createComment", 400, "empty_comment")
       ELSE /\ reqs' = [reqs EXCEPT ![r] =
                    [Idle EXCEPT !.op = "createComment", !.pc = "create",
                                 !.user = UserByEmail(session), !.target = postId,
                                 !.content = Trim(content.s)]]
            /\ Silent
    /\ UNCHANGED <<store, nextId, now, clientVars>>

\* session check, validation of the content, user lookup, post lookup
CreateCommentFind(r, session, postId, content) ==
    /\ reqs[r].pc = "idle"
    /\ IF ~ Authenticated(session)
       THEN Reply(r, "createComment", 401, "unauthorized")
       ELSE IF ~ Truthy(content) \/ content.t # "string"
       THEN Reply(r, "createComment", 400, "content_required")
       ELSE IF Len(Trim(content.s)) = 0
       THEN Reply(r, "createComment", 400, "empty_comment")
       ELSE IF UserByEmail(session) = NoUser
       THEN Reply(r, "createComment", 404, "user_not_found")
       ELSE IF ~ PostExists(posts, postId)
       THEN Reply(r, "createComment", 404, "post_not_found")
       ELSE /\ reqs' = [reqs EXCEPT ![r] =
                    [Idle EXCEPT !.op = "createComment", !.pc = "create",
                                 !.user = UserByEmail(session), !.target = postId,
                                 !.content = Trim(content.s)]]
            /\ Silent
    /\ UNCHANGED <<store, nextId, now, clientVars>>

\* prisma.comment.create({ data: { content: trimmedContent, userId, postId } });
\* the 201 response carries the row
CreateCommentCreate(r, dt) ==
    /\ At(r, "createComment", "create")
    /\ LET q == reqs[r] IN
       IF UserKeyOk(users, q.user) /\ ForeignKeyOk(posts, q.target)
       THEN /\ nextId.comment <= MaxComments
            /\ comments' = comments \cup
                   {[id |-> nextId.comment, userId |-> q.user, postId |-> q.target,
                     content |-> q.content, createdAt |-> now + dt]}
            /\ nextId' = [nextId EXCEPT !.comment = @ + 1]
            /\ now' = now + dt
            /\ reqs' = [reqs EXCEPT ![r] = Idle]
            /\ resp' = [op |-> "createComment", status |-> 201, error |-> "",
                        liked |-> FALSE, likeCount |-> 0,
                        comment |-> [id |-> nextId.comment, userId |-> q.user,
                                     postId |-> q.target, content |-> q.content,
                                     createdAt |-> now + dt]]
       ELSE /\ Reply(r, "createComment", 500, "internal")
            /\ UNCHANGED <<comments, nextId, now>>
    /\ UNCHANGED <<users, posts, likes, clientVars>>

\* ------------------------------------------- DELETE /api/comments/[id]
DeleteCommentFind(r, session, commentId) ==
    /\ reqs[r].pc = "idle"
    /\ IF ~ Authenticated(session)
       THEN Reply(r, "deleteComment", 401, "unauthorized")
       ELSE IF UserByEmail(session) = NoUser
       THEN Reply(r, "deleteComment", 404, "user_not_found")
       ELSE IF ~ CommentExists(comments, commentId)
       THEN Reply(r, "deleteComment", 404, "comment_not_found")
       ELSE IF ~ MayDeleteComment(CommentById(comments, commentId),
                     PostOwner(posts, CommentById(comments, commentId).postId),
                     UserByEmail(session))
       THEN Reply(r, "deleteComment", 403, "forbidden")
       ELSE Proceed(r, "deleteComment", "delete", UserByEmail(session), commentId)
    /\ UNCHANGED <<store, nextId, now, clientVars>>

\* prisma.comment.delete({ where: { id: commentId } })
DeleteCommentDelete(r) ==
    /\ At(r, "deleteComment", "delete")
    /\ IF CommentExists(comments, reqs[r].target)
       THEN /\ comments' = {c \in comments : c.id # reqs[r].target}
            /\ Reply(r, "deleteComment", 200, "")
       ELSE /\ Reply(r, "deleteComment", 500, "internal")
            /\ UNCHANGED comments
    /\ UNCHANGED <<users, posts, likes, nextId, now, clientVars>>

\* ----------------------------------------------------- GET /api/posts
DefaultLimit == 10
LimitCeiling == 100

Digits == {"0", "1", "2", "3", "4", "5", "6", "7", "8", "9"}
DigitVal(c) == CHOOSE n \in 0 .. 9 : <<"0", "1", "2", "3", "4", "5", "6", "7", "8", "9">>[n + 1] = c

RECURSIVE LeadingDigits(_, _)
LeadingDigits(s, acc) ==
    IF s = <<>> \/ Head(s) \notin Digits THEN acc
    ELSE LeadingDigits(Tail(s), acc * 10 + DigitVal(Head(s)))

\* parseInt(s, 10): leading white space, a sign, then the digits up to the
\* first other character; NaN when there is no digit
ParseInt(s) ==
    LET t == TrimStart(s)
        signed == t # <<>> /\ Head(t) \in {"-", "+"}
        u == IF signed THEN Tail(t) ELSE t
    IN  IF u = <<>> \/ Head(u) \notin Digits
        THEN [nan |-> TRUE, n |-> 0]
        ELSE [nan |-> FALSE,
              n |-> IF signed /\ Head(t) = "-" THEN 0 - LeadingDigits(u, 0)
                    ELSE LeadingDigits(u, 0)]

\* searchParams.get('limit') || '10'
RawLimit(v) == IF Truthy(v) THEN v.s ELSE <<"1", "0">>

\* the validation of the limit parameter
NoCeiling(v) ==
    LET limit == ParseInt(RawLimit(v))
    IN  IF limit.nan \/ limit.n < 1 THEN DefaultLimit ELSE limit.n
EffectiveLimit(v) ==
    LET limit == ParseInt(RawLimit(v))
    IN  IF limit.nan \/ limit.n < 1 THEN DefaultLimit
        ELSE IF limit.n > LimitCeiling THEN LimitCeiling
        ELSE limit.n

\* the values of the limit parameter requests arrive with
LimitParams ==
    {JsNull} \cup
    {JsString(s) : s \in {<<>>, <<"a">>, <<"0">>, <<"-", "1">>, <<"1">>, <<"2">>,
                          <<"2", "a">>, <<" ", "3">>, <<"1", "0", "0">>,
                          <<"1", "0", "1">>}}

\* where: userId ? { userId } : {}
Where(P, userId) == IF userId = NoUser THEN P ELSE {p \in P : p.userId = userId}

OrderingsOf(R) ==
    {f \in [1 .. Cardinality(R) -> R] :
        \A i \in DOMAIN f, j \in DOMAIN f : f[i] = f[j] => i = j}

\* orderBy: { createdAt: 'desc' } and nothing else: the rows in any order
\* that is descending in createdAt, rows of one timestamp in whatever order
\* the store produces them for this query
OrderByCreatedAtDesc(R) ==
    {f \in OrderingsOf(R) :
        \A i \in DOMAIN f, j \in DOMAIN f : i < j => f[i].createdAt >= f[j].createdAt}

\* cursor: { id: cursor }, skip: 1: the rows after the cursor row; none when
\* no row of the result has the cursor's id
AfterCursor(rows, cursor) ==
    IF cursor = 0 THEN rows
    ELSE IF \E i \in DOMAIN rows : rows[i].id = cursor
    THEN SubSeq(rows, (CHOOSE i \in DOMAIN rows : rows[i].id = cursor) + 1, Len(rows))
    ELSE <<>>

\* take: limit
Take(rows, limit) == SubSeq(rows, 1, IF Len(rows) < limit THEN Len(rows) ELSE limit)

\* posts.length === limit ? posts[posts.length - 1].id : null   (0 for null)
CursorOfNonEmpty(page, limit) == IF page # <<>> THEN page[Len(page)].id ELSE 0
NextCursor(page, limit) == IF Len(page) = limit THEN page[Len(page)].id ELSE 0

\* the handler: one findMany, then the response (take: the limit the query
\* was made with, which the response body does not carry)
ListFeed(r, limit, cursor, userId) ==
    /\ reqs[r].pc = "idle"
    /\ \E rows \in OrderByCreatedAtDesc(Where(posts, userId)) :
           LET page == Take(AfterCursor(rows, cursor), EffectiveLimit(limit))
           IN  resp' = [op |-> "listFeed", status |-> 200, error |-> "",
                        liked |-> FALSE, likeCount |-> 0,
                        take |-> EffectiveLimit(limit),
                        posts |-> page,
                        nextCursor |-> NextCursor(page, EffectiveLimit(limit))]
    /\ UNCHANGED <<store, nextId, now, reqs>>

\* ------------------------------------------------------- specification
\* One step of some handler: R the slots that take requests, S the sessions
\* requests arrive with, D the clock advances (0: same millisecond).
Step(R, S, D) ==
    \/ \E r \in R, s \in S, p \in PostIds : ToggleLikeFindPost(r, s, p)
    \/ \E r \in R : ToggleLikeFindLike(r)
    \/ \E r \in R : ToggleLikeWrite(r)
    \/ \E r \in R : ToggleLikeCount(r)
    \/ \E r \in R, s \in S, i \in Images, c \in Captions, d \in D :
           CreatePost(r, s, i, c, d)
    \/ \E r \in R, s \in S, p \in PostIds, c \in Captions : UpdatePostFind(r, s, p, c)
    \/ \E r \in R : UpdatePostUpdate(r)
    \/ \E r \in R, s \in S, p \in PostIds : DeletePostFind(r, s, p)
    \/ \E r \in R : DeletePostDelete(r)
    \/ \E r \in R, s \in S, p \in PostIds, c \in Contents : CreateCommentFind(r, s, p, c)
    \/ \E r \in R, d \in D : CreateCommentCreate(r, d)
    \/ \E r \in R, s \in S, c \in CommentIds : DeleteCommentFind(r, s, c)
    \/ \E r \in R : DeleteCommentDelete(r)

\* Spec: two requests at a time, from two signed-in users and anonymous clients;
\* the clock moves on before every row is stamped (nothing checked under
\* Spec reads createdAt).
Next == Step({1, 2}, {"u1", "u2", NoSession}, {1})

Spec == Init /\ [][Next]_vars

\* SeqSpec: one request at a time, run to completion, with any session.
SeqNext == Step({1}, {"u1", "u2", NoSession, StaleSession}, {1})

SeqSpec == Init /\ [][SeqNext]_vars

\* ------------------------------------------------- the scripted client
\* The arrangement of the like property tests: a post of some owner, Like
\* rows of other users on it, and an actor who has not liked it.  Rows made
\* by the arrangement carry negative ids; the handlers allocate from 1.
SeedId(u) == IF u = "u1" THEN -1 ELSE IF u = "u2" THEN -2 ELSE -3

SeededInit ==
    \E actor \in Users, owner \in Users : \E others \in SUBSET (Users \ {actor}) :
        /\ users = Users
        /\ posts = {[id |-> 1, userId |-> owner, image |-> "/uploads/a.jpg",
                     caption |-> Null, createdAt |-> 1]}
        /\ likes = {[id |-> SeedId(u), userId |-> u, postId |-> 1] : u \in others}
        /\ comments = {}
        /\ nextId = [post |-> 2, like |-> 1, comment |-> 1]
        /\ now = 1
        /\ reqs = [r \in Procs |-> Idle]
        /\ resp = NoResp
        /\ client = [session |-> actor, postId |-> 1, initialLikes |-> likes]
        /\ hist = <<>>

InitialLikeCount == Cardinality(client.initialLikes)

\* ToggleSpec: the actor's toggleLike requests on the post, any number of
\* them in flight at once, nobody else acting.
ToggleNext ==
    \/ \E r \in Procs : ToggleLikeFindPost(r, client.session, client.postId)
    \/ \E r \in Procs : ToggleLikeFindLike(r)
    \/ \E r \in Procs : ToggleLikeWrite(r)
    \/ \E r \in Procs : ToggleLikeCount(r)

ToggleSpec == SeededInit /\ [][ToggleNext]_vars

\* The client reads the response of its call (response.json()).
ClientReceive ==
    /\ reqs[1].pc = "idle"
    /\ resp # NoResp
    /\ hist' = Append(hist, resp)
    /\ resp' = NoResp
    /\ UNCHANGED <<store, nextId, now, reqs, client>>

\* TwiceSpec: the actor calls toggleLike twice, one call after the other.
ClientCall ==
    /\ resp = NoResp
    /\ Len(hist) < 2
    /\ ToggleLikeFindPost(1, client.session, client.postId)

TwiceNext ==
    \/ ClientCall
    \/ ToggleLikeFindLike(1)
    \/ ToggleLikeWrite(1)
    \/ ToggleLikeCount(1)
    \/ ClientReceive

TwiceSpec == SeededInit /\ [][TwiceNext]_vars

\* The arrangement of the test with several users liking: next to the post
\* the actor toggles, a second post with Like rows of any users, the actor
\* among them.
FrameInit ==
    \E actor \in Users, owner \in Users :
    \E others \in SUBSET (Users \ {actor}), elsewhere \in SUBSET Users :
        /\ users = Users
        /\ posts = {[id |-> p, userId |-> owner, image |-> "/uploads/a.jpg",
                     caption |-> Null, createdAt |-> p] : p \in {1, 2}}
        /\ likes = {[id |-> SeedId(u), userId |-> u, postId |-> 1] : u \in others}
                   \cup {[id |-> SeedId(u) - 3, userId |-> u, postId |-> 2] : u \in elsewhere}
        /\ comments = {}
        /\ nextId = [post |-> 3, like |-> 1, comment |-> 1]
        /\ now = 2
        /\ reqs = [r \in Procs |-> Idle]
        /\ resp = NoResp
        /\ client = [session |-> actor, postId |-> 1, initialLikes |-> likes]
        /\ hist = <<>>

\* FrameSpec: the actor calls toggleLike twice on the first post, one call
\* after the other.
FrameSpec == FrameInit /\ [][TwiceNext]_vars

\* ------------------------------------ GET /api/posts/[id]/comments
\* orderBy: { createdAt: 'asc' } and nothing else
OrderByCreatedAtAsc(R) ==
    {f \in OrderingsOf(R) :
        \A i \in DOMAIN f, j \in DOMAIN f : i < j => f[i].createdAt <= f[j].createdAt}

\* post lookup
ListCommentsFind(r, postId) ==
    /\ reqs[r].pc = "idle"
    /\ IF ~ PostExists(posts, postId)
       THEN Reply(r, "listComments", 404, "post_not_found")
       ELSE Proceed(r, "listComments", "list", NoUser, postId)
    /\ UNCHANGED <<store, nextId, now, clientVars>>

\* prisma.comment.findMany({ where: { postId }, orderBy }), then the response
ListCommentsList(r) ==
    /\ At(r, "listComments", "list")
    /\ \E rows \in OrderByCreatedAtAsc(CommentsOf(comments, reqs[r].target)) :
           resp' = [op |-> "listComments", status |-> 200, error |-> "",
                    liked |-> FALSE, likeCount |-> 0,
                    comments |-> rows, count |-> Len(rows)]
    /\ reqs' = [reqs EXCEPT ![r] = Idle]
    /\ UNCHANGED <<store, nextId, now, clientVars>>

\* The arrangement of the comment tests: a post and comments made on it one
\* after another, -1 the first, each in the millisecond of the one before or
\* in the next.
SeedComments(n, author, tick) ==
    {[id |-> 0 - i, userId |-> author[i], postId |-> -1, content |-> <<"a">>,
      createdAt |-> 1 + Cardinality({j \in 2 .. i : tick[j] = 1})] : i \in 1 .. n}

CommentInit ==
    \E n \in 0 .. MaxSeedComments :
    \E author \in [1 .. n -> {"u1", "u2"}], tick \in [2 .. n -> {0, 1}] :
        /\ users = Users
        /\ posts = {[id |-> -1, userId |-> "u1", image |-> "/uploads/a.jpg",
                     caption |-> Null, createdAt |-> 1]}
        /\ likes = {}
        /\ comments = SeedComments(n, author, tick)
        /\ nextId = [post |-> 1, like |-> 1, comment |-> 1]
        /\ now = 1 + Cardinality({j \in 2 .. n : tick[j] = 1})
        /\ reqs = [r \in Procs |-> Idle]
        /\ resp = NoResp
        /\ client = [session |-> NoSession, postId |-> 0, initialLikes |-> {}]
        /\ hist = <<>>

\* CommentSpec: createComment and listComments on the post, one request at
\* a time.
CommentNext ==
    \/ \E s \in {"u1", "u2"}, p \in {-1, 1}, c \in Contents : CreateCommentFind(1, s, p, c)
    \/ \E d \in {0, 1} : CreateCommentCreate(1, d)
    \/ \E p \in {-1, 1} : ListCommentsFind(1, p)
    \/ ListCommentsList(1)

CommentSpec == CommentInit /\ [][CommentNext]_vars

\* ------------------------------------------------------ the feed client
\* The arrangement of the feed tests: posts made one after another, -1 the
\* first, each either in the millisecond of the one before or in the next.
SeedPosts(n, owner, tick) ==
    {[id |-> 0 - i, userId |-> owner[i], image |-> "/uploads/a.jpg", caption |-> Null,
      createdAt |-> 1 + Cardinality({j \in 2 .. i : tick[j] = 1})] : i \in 1 .. n}

FeedInit ==
    \E n \in 0 .. MaxSeedPosts :
    \E owner \in [1 .. n -> {"u1", "u2"}], tick \in [2 .. n -> {0, 1}] :
    \E limit \in {JsNull, JsString(<<"1">>), JsString(<<"2">>)}, userId \in {NoUser, "u1"} :
        /\ users = Users
        /\ posts = SeedPosts(n, owner, tick)
        /\ likes = {}
        /\ comments = {}
        /\ nextId = [post |-> 1, like |-> 1, comment |-> 1]
        /\ now = 1 + Cardinality({j \in 2 .. n : tick[j] = 1})
        /\ reqs = [r \in Procs |-> Idle]
        /\ resp = NoResp
        /\ client = [limit |-> limit, userId |-> userId, cursor |-> 0, snapshot |-> {}]
        /\ hist = <<>>

\* the order in which the posts were made
MadeBefore(p, q) ==
    \/ p.id < 0 /\ q.id > 0
    \/ p.id < 0 /\ q.id < 0 /\ p.id > q.id
    \/ p.id > 0 /\ q.id > 0 /\ p.id < q.id

\* The client fetches the top of the feed, then follows nextCursor while it
\* is not null, appending each page to what it has (loadMore).  snapshot is
\* the Post table as it was at the first fetch.
FeedFetch ==
    /\ hist = <<>> \/ client.cursor # 0
    /\ Len(hist) < MaxCalls
    /\ ListFeed(1, client.limit, client.cursor, client.userId)
    /\ hist' = Append(hist, resp')
    /\ client' = [client EXCEPT !.cursor = resp'.nextCursor,
                                 !.snapshot = IF hist = <<>> THEN posts ELSE @]

\* "refresh from top": the client asks for the first page again and shows it
\* in place of nothing it holds (its pages and its cursor stay)
FeedRefresh ==
    /\ hist # <<>>
    /\ ListFeed(1, client.limit, 0, client.userId)
    /\ UNCHANGED clientVars

\* any GET /api/posts of some other client, on the feed as arranged
FeedProbe ==
    /\ hist = <<>>
    /\ resp = NoResp
    /\ \E limit \in LimitParams, cursor \in (0 - MaxSeedPosts) .. MaxPosts,
          userId \in {NoUser, "u1", "u2"} :
           ListFeed(1, limit, cursor, userId)
    /\ UNCHANGED clientVars

FeedNext ==
    \/ FeedFetch
    \/ FeedRefresh
    \/ FeedProbe
    \/ \E s \in {"u1", "u2"}, d \in {0, 1} : CreatePost(1, s, "/uploads/a.jpg", Null, d)

FeedSpec == FeedInit /\ [][FeedNext]_vars

\* ------------------------------------------------- deleting a User row
\* (a User row removed without its dependents)
CascadeUserDropped(R, u) == R
\* onDelete: Cascade on Post.user, Like.user and Comment.user
CascadeUser(R, u) == {r \in R : r.userId # u}

\* the cascade of Like.post and Comment.post over a set of removed posts
CascadePosts(R, gone) == {r \in R : r.postId \notin gone}

\* prisma.user.delete({ where: { id } }): one statement; the store removes
\* the row, the posts, likes and comments that reference it, and with each
\* removed post the likes and comments on it.  Requests in flight keep the
\* user id they read.
DeleteUser(u) ==
    /\ u \in users
    /\ users' = users \ {u}
    /\ posts' = CascadeUser(posts, u)
    /\ likes' = CascadePosts(CascadeUser(likes, u), {p.id : p \in posts \ posts'})
    /\ comments' = CascadePosts(CascadeUser(comments, u), {p.id : p \in posts \ posts'})
    /\ Silent
    /\ UNCHANGED <<nextId, now, reqs, clientVars>>

\* The arrangement of the cascade tests, with a second post: posts -1 and -2
\* of u1 or u2, and on each any Likes and Comments of u1 and u2.
SeededPosts == {-1, -2}

UserInit ==
    \E owner \in [SeededPosts -> {"u1", "u2"}] :
    \E L \in SUBSET ({"u1", "u2"} \X SeededPosts), C \in SUBSET ({"u1", "u2"} \X SeededPosts) :
        /\ users = Users
        /\ posts = {[id |-> p, userId |-> owner[p], image |-> "/uploads/a.jpg",
                     caption |-> Null, createdAt |-> 0 - p] : p \in SeededPosts}
        /\ likes = {[id |-> 10 * x[2] + SeedId(x[1]), userId |-> x[1], postId |-> x[2]] : x \in L}
        /\ comments = {[id |-> 10 * x[2] + SeedId(x[1]), userId |-> x[1], postId |-> x[2],
                        content |-> <<"a">>, createdAt |-> 2] : x \in C}
        /\ nextId = [post |-> 1, like |-> 1, comment |-> 1]
        /\ now = 2
        /\ reqs = [r \in Procs |-> Idle]
        /\ resp = NoResp
        /\ client = [session |-> NoSession, postId |-> 0, initialLikes |-> {}]
        /\ hist = <<>>

\* UserSpec: users are deleted while u1 and u2 like and comment on the two
\* posts, one request at a time, a deletion falling between any two store
\* calls of a request.
UserNext ==
    \/ \E u \in Users : DeleteUser(u)
    \/ \E s \in {"u1", "u2"}, p \in SeededPosts : ToggleLikeFindPost(1, s, p)
    \/ ToggleLikeFindLike(1)
    \/ ToggleLikeWrite(1)
    \/ ToggleLikeCount(1)
    \/ \E s \in {"u1", "u2"}, p \in SeededPosts : CreateCommentFind(1, s, p, JsString(<<"a">>))
    \/ CreateCommentCreate(1, 1)

UserSpec == UserInit /\ [][UserNext]_vars

\* ------------------------------------- deletions during a traversal
\* CursorSpec: the client traverses the feed as arranged, fetch after fetch,
\* while the owners delete posts, a deletion falling between any two fetches.
CursorNext ==
    \/ FeedFetch
    \/ \E s \in {"u1", "u2"}, p \in (0 - MaxSeedPosts) .. -1 : DeletePostFind(2, s, p)
    \/ DeletePostDelete(2)

CursorSpec == FeedInit /\ [][CursorNext]_vars

\* ------------------------------------------------------ the like button
\* LikeButton of one post in one browser: client holds its props
\* (postId, initialLiked, initialLikeCount, isAuthenticated), its state
\* (liked, likeCount, isLoading), the closures of the handleLike calls that
\* have not settled (calls), the page shown, and the browser's session; hist
\* holds, for each settled call, the response and what the button then shows.

\* setLiked(!liked); setLikeCount(liked ? likeCount - 1 : likeCount + 1)
Optimistic(c) ==
    [c EXCEPT !.liked = ~ c.liked,
              !.likeCount = IF c.liked THEN c.likeCount - 1 ELSE c.likeCount + 1]

\* setLiked(data.liked); setLikeCount(data.likeCount)
Synced(c, data) == [c EXCEPT !.liked = data.liked, !.likeCount = data.likeCount]

\* (a catch block that leaves the optimistic values)
RollbackDropped(c, call) == c
\* setLiked(previousLiked); setLikeCount(previousLikeCount)
RolledBack(c, call) ==
    [c EXCEPT !.liked = call.previousLiked, !.likeCount = call.previousLikeCount]

\* disabled={isLoading}
ButtonDisabled(isLoading) == isLoading

\* response.ok
ResponseOk(status) == status >= 200 /\ status <= 299

\* The page was rendered for u1 some time ago: what it shows may be out of
\* date, and the session may have expired since.  The post is u2's.
ButtonInit ==
    \E auth \in BOOLEAN, expired \in BOOLEAN, likers \in SUBSET Users :
    \E shownLiked \in BOOLEAN, shownCount \in 0 .. 2 :
        /\ users = Users
        /\ posts = {[id |-> 1, userId |-> "u2", image |-> "/uploads/a.jpg",
                     caption |-> Null, createdAt |-> 1]}
        /\ likes = {[id |-> SeedId(u), userId |-> u, postId |-> 1] : u \in likers}
        /\ comments = {}
        /\ nextId = [post |-> 2, like |-> 1, comment |-> 1]
        /\ now = 1
        /\ reqs = [r \in Procs |-> Idle]
        /\ resp = NoResp
        /\ client = [session |-> IF auth /\ ~ expired THEN "u1" ELSE NoSession,
                     postId |-> 1, isAuthenticated |-> auth,
                     initialLiked |-> shownLiked, initialLikeCount |-> shownCount,
                     liked |-> shownLiked, likeCount |-> shownCount,
                     isLoading |-> FALSE, calls |-> <<>>, page |-> "/"]
        /\ hist = <<>>

\* handleLike up to the fetch: the redirect of a visitor, or the optimistic
\* update and the request
HandleLikeClick ==
    /\ client.page = "/"
    /\ ~ ButtonDisabled(client.isLoading)
    /\ Len(hist) + Len(client.calls) < MaxClicks
    /\ IF ~ client.isAuthenticated
       THEN client' = [client EXCEPT !.page = "/auth/signin"]
       ELSE client' = [Optimistic(client) EXCEPT
                          !.isLoading = TRUE,
                          !.calls = Append(@, [previousLiked |-> client.liked,
                                               previousLikeCount |-> client.likeCount])]
    /\ resp' = NoResp
    /\ UNCHANGED <<store, nextId, now, reqs, hist>>

\* the request is on its way to the server
InTransit == client.calls # <<>> /\ reqs[1].pc = "idle" /\ resp.op # "toggleLike"

\* the response is on its way to the button
Pending == client.calls # <<>> /\ reqs[1].pc = "idle" /\ resp.op = "toggleLike"

\* handleLike from the response on: the values of the server, or the catch
\* block; then finally
HandleLikeSettle ==
    /\ Pending
    /\ LET shown == IF ResponseOk(resp.status) THEN Synced(client, resp)
                    ELSE RolledBack(client, Head(client.calls))
       IN  /\ client' = [shown EXCEPT !.isLoading = FALSE, !.calls = Tail(@)]
           /\ hist' = Append(hist, [status |-> resp.status, liked |-> resp.liked,
                                    likeCount |-> resp.likeCount,
                                    shownLiked |-> shown.liked,
                                    shownCount |-> shown.likeCount])
    /\ resp' = NoResp
    /\ UNCHANGED <<store, nextId, now, reqs>>

\* fetch rejects: the request or its response is lost (status 0 in hist)
HandleLikeFetchFails ==
    /\ client.calls # <<>>
    /\ reqs[1].pc = "idle"
    /\ LET shown == RolledBack(client, Head(client.calls))
       IN  /\ client' = [shown EXCEPT !.isLoading = FALSE, !.calls = Tail(@)]
           /\ hist' = Append(hist, [status |-> 0, liked |-> FALSE, likeCount |-> 0,
                                    shownLiked |-> shown.liked,
                                    shownCount |-> shown.likeCount])
    /\ resp' = NoResp
    /\ UNCHANGED <<store, nextId, now, reqs>>

\* ButtonSpec: clicks on the button, the requests they send served in slot
\* 1, while the owner of the post may delete it (slot 2).
ButtonNext ==
    \/ HandleLikeClick
    \/ InTransit /\ ToggleLikeFindPost(1, client.session, client.postId)
    \/ ToggleLikeFindLike(1)
    \/ ToggleLikeWrite(1)
    \/ ToggleLikeCount(1)
    \/ HandleLikeSettle
    \/ HandleLikeFetchFails
    \/ ~ Pending /\ DeletePostFind(2, "u2", 1)
    \/ ~ Pending /\ DeletePostDelete(2)

ButtonSpec == ButtonInit /\ [][ButtonNext]_vars

\* --------------------------------------------------- the comment section
\* CommentSection with its CommentForm, for one signed-in user on the post
\* of the comment arrangement: client holds the props (postId,
\* initialCommentCount), the state (comments, isExpanded), where the
\* component's calls stand (pc), and the comment its form has just made.
SectionInit ==
    \E n \in 0 .. MaxSeedComments :
    \E author \in [1 .. n -> {"u1", "u2"}], tick \in [2 .. n -> {0, 1}] :
        /\ users = Users
        /\ posts = {[id |-> -1, userId |-> "u1", image |-> "/uploads/a.jpg",
                     caption |-> Null, createdAt |-> 1]}
        /\ likes = {}
        /\ comments = SeedComments(n, author, tick)
        /\ nextId = [post |-> 1, like |-> 1, comment |-> 1]
        /\ now = 1 + Cardinality({j \in 2 .. n : tick[j] = 1})
        /\ reqs = [r \in Procs |-> Idle]
        /\ resp = NoResp
        /\ client = [session |-> "u2", postId |-> -1, initialCommentCount |-> n,
                     comments |-> <<>>, isExpanded |-> FALSE, pc |-> "ready",
                     content |-> <<>>, newComment |-> [id |-> 0]]
        /\ hist = <<>>

\* the "view all comments" button: onClick={loadComments}
SectionExpandClick ==
    /\ client.pc = "ready"
    /\ client.initialCommentCount > 0 /\ ~ client.isExpanded
    /\ client' = [client EXCEPT !.pc = "expanding"]
    /\ resp' = NoResp
    /\ UNCHANGED <<store, nextId, now, reqs, hist>>

\* CommentForm.handleSubmit up to the fetch: blank input is dropped, the
\* trimmed input is sent
FormSubmit(typed) ==
    /\ client.pc = "ready"
    /\ Len(hist) < MaxComments
    /\ IF Len(Trim(typed)) = 0
       THEN client' = [client EXCEPT !.content = <<>>]
       ELSE client' = [client EXCEPT !.pc = "posting", !.content = Trim(typed)]
    /\ resp' = NoResp
    /\ UNCHANGED <<store, nextId, now, reqs, hist>>

\* handleSubmit from the response on, and handleCommentAdded up to its await:
\* with the list not expanded and comments on the post it loads the list
\* first, otherwise it appends the new comment at once
FormReceive ==
    /\ client.pc = "posting"
    /\ reqs[1].pc = "idle"
    /\ resp.op = "createComment"
    /\ IF ~ ResponseOk(resp.status)
       THEN client' = [client EXCEPT !.pc = "ready"]
       ELSE IF ~ client.isExpanded /\ client.initialCommentCount > 0
       THEN client' = [client EXCEPT !.pc = "loading", !.newComment = resp.comment]
       ELSE client' = [client EXCEPT !.pc = "ready", !.newComment = resp.comment,
                                     !.comments = Append(@, resp.comment),
                                     !.isExpanded = TRUE]
    /\ hist' = Append(hist, resp)
    /\ resp' = NoResp
    /\ UNCHANGED <<store, nextId, now, reqs>>

\* loadComments from the response on: setComments(data.comments),
\* setIsExpanded(true), or the catch block
Loaded(c, response) ==
    IF ResponseOk(response.status)
    THEN [c EXCEPT !.comments = response.comments, !.isExpanded = TRUE]
    ELSE c

\* loadComments of the button settles
SectionExpanded ==
    /\ client.pc = "expanding"
    /\ reqs[1].pc = "idle"
    /\ resp.op = "listComments"
    /\ client' = [Loaded(client, resp) EXCEPT !.pc = "ready"]
    /\ resp' = NoResp
    /\ UNCHANGED <<store, nextId, now, reqs, hist>>

\* loadComments of handleCommentAdded settles, and handleCommentAdded goes
\* on: setComments((prev) => [...prev, newComment]), setIsExpanded(true)
SectionCommentAdded ==
    /\ client.pc = "loading"
    /\ reqs[1].pc = "idle"
    /\ resp.op = "listComments"
    /\ client' = [Loaded(client, resp) EXCEPT
                     !.pc = "ready",
                     !.comments = Append(@, client.newComment),
                     !.isExpanded = TRUE]
    /\ resp' = NoResp
    /\ UNCHANGED <<store, nextId, now, reqs, hist>>

\* the component's request has not reached the server yet
Unserved == reqs[1].pc = "idle" /\ resp = NoResp

\* SectionSpec: the user expands the list or submits comments, one call at a
\* time, each request served by its handler.
SectionNext ==
    \/ SectionExpandClick
    \/ \E typed \in StringsUpTo(MaxLen) : FormSubmit(typed)
    \/ client.pc = "posting" /\ Unserved
          /\ CreateCommentFind(1, client.session, client.postId, JsString(client.content))
    \/ \E d \in {0, 1} : CreateCommentCreate(1, d)
    \/ FormReceive
    \/ client.pc \in {"expanding", "loading"} /\ Unserved
          /\ ListCommentsFind(1, client.postId)
    \/ ListCommentsList(1)
    \/ SectionExpanded
    \/ SectionCommentAdded

SectionSpec == SectionInit /\ [][SectionNext]_vars

\* ================================================================ claims
IsBlank(s) == \A i \in 1 .. Len(s) : s[i] \in WhiteSpace

\* C1 (Spec): in every reachable state, under every interleaving of the
\* handlers, each (userId, postId) pair has at most one Like row.
C1_LikeUnique ==
    \A l1 \in likes, l2 \in likes :
        (l1.userId = l2.userId /\ l1.postId = l2.postId) => l1 = l2

\* a request found no Like, another request has inserted one since, and the
\* first is about to insert its own
C1_Witness ==
    \E r \in Procs :
        /\ At(r, "toggleLike", "write")
        /\ reqs[r].existingLike = 0
        /\ \E l \in likes : l.userId = reqs[r].user /\ l.postId = reqs[r].target

\* C2 (TwiceSpec): an actor without a Like on the post calls toggleLike twice
\* in sequence, nothing interleaved: the calls answer liked = true then
\* liked = false, the second likeCount is the count before the first call,
\* and the post's Like rows are the rows it had before.
C2_RoundTrip ==
    /\ Len(hist) >= 1 =>
           /\ hist[1].status = 200
           /\ hist[1].liked
           /\ hist[1].likeCount = InitialLikeCount + 1
    /\ Len(hist) = 2 =>
           /\ hist[2].status = 200
           /\ ~ hist[2].liked
           /\ hist[2].likeCount = InitialLikeCount
           /\ LikesOf(likes, client.postId) = client.initialLikes

C2_Witness ==
    /\ Len(hist) = 2
    /\ InitialLikeCount = 2
    /\ nextId.like = 2

\* C3 (ToggleSpec): with any number of the actor's toggleLike requests in
\* flight on the post, and nobody else acting, the post never has more than
\* one Like row above its starting count, and no response reports a likeCount
\* more than one above it.
C3_AtMostOneMore ==
    /\ LikeCount(likes, client.postId) <= InitialLikeCount + 1
    /\ (resp.op = "toggleLike" /\ resp.status = 200) =>
           resp.likeCount <= InitialLikeCount + 1

\* one request has answered with the raised count while two others, which
\* both found no Like, are still to write
C3_Witness ==
    /\ resp.op = "toggleLike"
    /\ resp.status = 200
    /\ resp.likeCount = InitialLikeCount + 1
    /\ \E r1 \in Procs, r2 \in Procs :
           /\ r1 # r2
           /\ At(r1, "toggleLike", "write") /\ reqs[r1].existingLike = 0
           /\ At(r2, "toggleLike", "write") /\ reqs[r2].existingLike = 0

\* C4 (ToggleSpec): concurrent toggleLike requests of one actor on one post
\* never end with the generic internal error (500): the losing insert or
\* delete is handled.
C4_NoInternalError == ~ (resp.op = "toggleLike" /\ resp.status = 500)

\* C5 (Spec): the step that removes a Post row removes, in that same step,
\* every Like and Comment row of the post and nothing else; the post and its
\* rows are then gone from every lookup.
C5_DeleteCascadesAtomically ==
    [][\A p \in PostIds :
          (PostExists(posts, p) /\ ~ PostExists(posts', p)) =>
              /\ posts' = {x \in posts : x.id # p}
              /\ likes' = likes \ LikesOf(likes, p)
              /\ comments' = comments \ CommentsOf(comments, p)
              /\ LikesOf(likes', p) = {}
              /\ CommentsOf(comments', p) = {}
              /\ \A u \in Users : LikeFindUnique(likes', u, p) = 0]_vars

\* the owner's delete has answered 200 while a request that had inserted a
\* Like on the post is still to count: the post and all rows are gone
C5_Witness ==
    /\ resp.op = "deletePost"
    /\ resp.status = 200
    /\ posts = {}
    /\ likes = {}
    /\ comments = {}
    /\ nextId.comment > 1
    /\ \E r \in Procs : At(r, "toggleLike", "count") /\ reqs[r].liked

\* C6 (Spec): under every interleaving of deletePost with toggleLike and
\* createComment, no Like or Comment refers to a post that does not exist.
C6_NoDanglingRows ==
    /\ \A l \in likes : PostExists(posts, l.postId)
    /\ \A c \in comments : PostExists(posts, c.postId)

\* a request passed its existence check, the post was deleted, and the
\* request is about to insert
C6_Witness ==
    \E r \in Procs :
        /\ \/ At(r, "toggleLike", "write") /\ reqs[r].existingLike = 0
           \/ At(r, "createComment", "create")
        /\ ~ PostExists(posts, reqs[r].target)

\* C7 (Spec): a toggleLike or createComment request whose post was deleted
\* between its existence check and its insert answers 404.
C7_RaceAnswersNotFound ==
    [][\A r \in Procs :
          ( /\ \/ At(r, "toggleLike", "write") /\ reqs[r].existingLike = 0
               \/ At(r, "createComment", "create")
            /\ ~ PostExists(posts, reqs[r].target)
            /\ reqs'[r].pc = "idle" )
          => resp'.status = 404]_vars

\* C8 (SeqSpec): for an existing post and a signed-in actor who is not its
\* owner, PATCH and DELETE answer 403 and leave every row as it was.
C8_NonOwnerForbidden ==
    [][\A s \in Sessions \ {NoSession}, p \in PostIds :
          (PostExists(posts, p) /\ PostById(posts, p).userId # s) =>
              /\ \A c \in Captions :
                     UpdatePostFind(1, s, p, c) =>
                         /\ resp'.op = "updatePost" /\ resp'.status = 403
                         /\ reqs'[1].pc = "idle"
                         /\ UNCHANGED store
              /\ DeletePostFind(1, s, p) =>
                     /\ resp'.op = "deletePost" /\ resp'.status = 403
                     /\ reqs'[1].pc = "idle"
                     /\ UNCHANGED store]_vars

\* a non-owner's delete was refused and the post still has its rows
C8_Witness ==
    /\ resp.op = "deletePost"
    /\ resp.status = 403
    /\ \E p \in posts : LikesOf(likes, p.id) # {} /\ CommentsOf(comments, p.id) # {}

\* C9 (SeqSpec): deleteComment removes the comment exactly when the actor is
\* its author or the owner of its post; any other signed-in user gets 403 and
\* the comment stays; an unknown comment id gets 404 and nothing changes.
C9_DeleteCommentGuard ==
    [][/\ \A s \in Users, c \in CommentIds :
              DeleteCommentFind(1, s, c) =>
                  IF ~ CommentExists(comments, c)
                  THEN resp'.status = 404 /\ reqs'[1].pc = "idle" /\ UNCHANGED store
                  ELSE IF \/ CommentById(comments, c).userId = s
                          \/ PostOwner(posts, CommentById(comments, c).postId) = s
                  THEN reqs'[1].pc = "delete" /\ UNCHANGED store
                  ELSE /\ resp'.status = 403 /\ reqs'[1].pc = "idle"
                       /\ UNCHANGED store
                       /\ CommentExists(comments', c)
       /\ DeleteCommentDelete(1) =>
              /\ resp'.status = 200
              /\ comments' = {c \in comments : c.id # reqs[1].target}
              /\ ~ CommentExists(comments', reqs[1].target)
       /\ \A c \in comments :
              (c \notin comments' /\ PostExists(posts', c.postId)) =>
                  /\ At(1, "deleteComment", "delete")
                  /\ reqs[1].target = c.id
                  /\ \/ reqs[1].user = c.userId
                     \/ reqs[1].user = PostOwner(posts, c.postId)]_vars

\* the owner of the post is about to remove another user's comment
C9_Witness ==
    /\ At(1, "deleteComment", "delete")
    /\ CommentExists(comments, reqs[1].target)
    /\ CommentById(comments, reqs[1].target).userId # reqs[1].user
    /\ PostOwner(posts, CommentById(comments, reqs[1].target).postId) = reqs[1].user

\* C10 (SeqSpec): createComment with empty or whitespace-only content answers
\* 400 and leaves the Comment rows as they were, and no Comment row ever has
\* content that is empty after trimming.
C10_BlankCommentRejected ==
    /\ [][\A s \in Sessions \ {NoSession}, p \in PostIds, c \in Contents :
             (c.t = "string" /\ IsBlank(c.s) /\ CreateCommentFind(1, s, p, c)) =>
                 /\ resp'.op = "createComment" /\ resp'.status = 400
                 /\ reqs'[1].pc = "idle"
                 /\ UNCHANGED store]_vars
    /\ [](\A c \in comments : ~ IsBlank(c.content))

\* a whitespace-only comment on an existing post was refused
C10_Witness ==
    /\ resp.op = "createComment"
    /\ resp.error = "empty_comment"
    /\ posts # {}

\* t is s without its leading and trailing white space
IsTrimOf(t, s) ==
    /\ t # <<>>
    /\ t[1] \notin WhiteSpace
    /\ t[Len(t)] \notin WhiteSpace
    /\ \E i \in 1 .. Len(s) :
           /\ SubSeq(s, i, i + Len(t) - 1) = t
           /\ IsBlank(SubSeq(s, 1, i - 1))
           /\ IsBlank(SubSeq(s, i + Len(t), Len(s)))

\* C11 (CommentSpec): for raw content that is not blank, createComment by a
\* signed-in actor on an existing post goes on to insert the trimmed content;
\* its insert adds exactly one Comment row, with that content, that actor as
\* author and that post as parent; and listComments on a post returns every
\* Comment row the post has at that moment, each once.
C11_CommentPersisted ==
    [][/\ \A s \in Users, p \in {x.id : x \in posts}, c \in Contents :
              (c.t = "string" /\ ~ IsBlank(c.s) /\ CreateCommentFind(1, s, p, c)) =>
                  /\ reqs'[1].op = "createComment" /\ reqs'[1].pc = "create"
                  /\ reqs'[1].user = s
                  /\ reqs'[1].target = p
                  /\ IsTrimOf(reqs'[1].content, c.s)
       /\ (At(1, "createComment", "create") /\ reqs'[1].pc = "idle" /\ resp'.status = 201) =>
              \E row \in comments' :
                  /\ row \notin comments
                  /\ comments' = comments \cup {row}
                  /\ row.content = reqs[1].content
                  /\ row.userId = reqs[1].user
                  /\ row.postId = reqs[1].target
       /\ (At(1, "listComments", "list") /\ reqs'[1].pc = "idle") =>
              /\ resp'.status = 200
              /\ resp'.count = Cardinality(CommentsOf(comments, reqs[1].target))
              /\ Len(resp'.comments) = resp'.count
              /\ \A c \in CommentsOf(comments, reqs[1].target) :
                     \E i \in DOMAIN resp'.comments : resp'.comments[i] = c]_vars

\* the listing right after an insert holds the new comment next to the
\* earlier ones
C11_Witness ==
    /\ resp.op = "listComments"
    /\ resp.status = 200
    /\ resp.count = MaxSeedComments + 1
    /\ \E i \in DOMAIN resp.comments :
           resp.comments[i].id = 1 /\ resp.comments[i].content = <<"a", "a">>

\* the posts the client's traversal is over, its page size, and how often a
\* post occurs in the pages it has
Matching == Where(posts, client.userId)
PageSize == EffectiveLimit(client.limit)
Occurrences(id) ==
    Cardinality({ij \in (1 .. Len(hist)) \X (1 .. MaxSeedPosts + MaxPosts) :
                    /\ ij[2] <= Len(hist[ij[1]].posts)
                    /\ hist[ij[1]].posts[ij[2]].id = id})
TraversalDone == hist # <<>> /\ client.cursor = 0

\* C12 (FeedSpec): a traversal from the top that followed nextCursor to null
\* over N > k posts, with no post made meanwhile, took ceil(N/k) calls and
\* its pages hold each of the N posts exactly once.
C12_TraversalPages ==
    (TraversalDone /\ posts = client.snapshot /\ Cardinality(Matching) > PageSize) =>
        /\ Len(hist) = (Cardinality(Matching) + PageSize - 1) \div PageSize
        /\ \A p \in Matching : Occurrences(p.id) = 1

Min(a, b) == IF a < b THEN a ELSE b

\* the posts of the first fetch's Post table that the traversal has yet to
\* return, and the posts made since
Remaining == {p \in Where(client.snapshot, client.userId) : Occurrences(p.id) = 0}
MadeSince == Matching \ client.snapshot

\* C13 (FeedSpec): whatever posts were made since the client's first fetch,
\* a loadMore with the cursor it holds returns the next posts of the feed as
\* it was (none made since, none it already has, none left out), and a fetch
\* from the top returns the posts made since ahead of every post the client
\* already has.
C13_InsertsAheadOfCursor ==
    [][/\ (hist # <<>> /\ posts # client.snapshot /\ FeedFetch) =>
              /\ \A i \in DOMAIN resp'.posts : resp'.posts[i] \in Remaining
              /\ Len(resp'.posts) = Min(PageSize, Cardinality(Remaining))
       /\ (posts # client.snapshot /\ FeedRefresh) =>
              /\ \A i \in 1 .. Min(PageSize, Cardinality(MadeSince)) :
                     resp'.posts[i] \in MadeSince
              /\ \A i \in DOMAIN resp'.posts, j \in DOMAIN resp'.posts :
                     (resp'.posts[i] \in MadeSince /\ Occurrences(resp'.posts[j].id) > 0)
                         => i < j]_vars

\* C14 (FeedSpec): posts with one creation timestamp are still returned
\* exactly once each by a traversal that followed nextCursor to null, with
\* no post made meanwhile, wherever the page boundaries fall.
C14_TiedPostsOnce ==
    (TraversalDone /\ posts = client.snapshot) =>
        \A p \in Matching, q \in Matching :
            (p # q /\ p.createdAt = q.createdAt) =>
                Occurrences(p.id) = 1 /\ Occurrences(q.id) = 1

\* what C15 says of the response to GET /api/posts with these parameters
CursorRule(limit, cursor, userId) ==
    /\ resp'.status = 200
    /\ Len(resp'.posts) <= EffectiveLimit(limit)
    /\ resp'.nextCursor = 0 <=> Len(resp'.posts) < EffectiveLimit(limit)
    /\ resp'.nextCursor # 0 => resp'.nextCursor = resp'.posts[Len(resp'.posts)].id
    /\ (\E p \in Where(posts, userId) :
            /\ p.id = cursor
            /\ \A q \in Where(posts, userId) \ {p} : q.createdAt > p.createdAt)
           => resp'.posts = <<>> /\ resp'.nextCursor = 0

\* C15 (FeedSpec): every GET /api/posts answers nextCursor null exactly when
\* its page has fewer posts than the effective limit, and otherwise the id of
\* the page's last post; a call whose cursor is the oldest post of the
\* listing answers an empty page and nextCursor null.
C15_NextCursor ==
    [][/\ hist' # hist => CursorRule(client.limit, client.cursor, client.userId)
       /\ (hist # <<>> /\ hist' = hist /\ resp'.op = "listFeed") =>
              CursorRule(client.limit, 0, client.userId)
       /\ (hist = <<>> /\ hist' = hist /\ resp'.op = "listFeed") =>
              \A limit \in LimitParams, cursor \in (0 - MaxSeedPosts) .. MaxPosts,
                 userId \in {NoUser, "u1", "u2"} :
                  ListFeed(1, limit, cursor, userId) => CursorRule(limit, cursor, userId)]_vars

\* a full page that held the whole feed came with a cursor, and the call
\* with that cursor answered an empty page and null
C15_Witness ==
    /\ Len(hist) = 2
    /\ Len(hist[1].posts) = MaxSeedPosts
    /\ hist[1].nextCursor # 0
    /\ hist[2].posts = <<>>
    /\ hist[2].nextCursor = 0
    /\ posts = client.snapshot

\* the limit parameters that are plain decimal numbers, with their values
NumericLimits ==
    {<<JsString(<<"0">>), 0>>, <<JsString(<<"-", "1">>), -1>>, <<JsString(<<"1">>), 1>>,
     <<JsString(<<"2">>), 2>>, <<JsString(<<"1", "0", "0">>), 100>>,
     <<JsString(<<"1", "0", "1">>), 101>>}

\* the limit parameters parseInt reads a number from although they are not
\* plain numbers, with what it reads
PrefixLimits == {<<JsString(<<"2", "a">>), 2>>, <<JsString(<<" ", "3">>), 3>>}

C17_ListedInCreationOrder ==
    [][(At(1, "listComments", "list") /\ reqs'[1].pc = "idle") =>
           /\ Len(resp'.comments) = Cardinality(CommentsOf(comments, reqs[1].target))
           /\ \A i \in DOMAIN resp'.comments, j \in DOMAIN resp'.comments :
                  i < j => /\ resp'.comments[i].createdAt <= resp'.comments[j].createdAt
                           /\ MadeBefore(resp'.comments[i], resp'.comments[j])]_vars

\* C18 (CommentSpec): comments of one post with one createdAt are listed in
\* the order in which they were inserted.
C18_TiesInInsertionOrder ==
    [][(At(1, "listComments", "list") /\ reqs'[1].pc = "idle") =>
           \A i \in DOMAIN resp'.comments, j \in DOMAIN resp'.comments :
               (i < j /\ resp'.comments[i].createdAt = resp'.comments[j].createdAt) =>
                   MadeBefore(resp'.comments[i], resp'.comments[j])]_vars

\* C19 (FeedSpec): a listing from the top, with or without a userId filter,
\* returns posts newest first: descending in createdAt, each post ahead of
\* the posts made before it, the post made last at the head; with the filter
\* it returns posts of that user only.
C19_NewestFirst ==
    [][((hist = <<>> /\ hist' # hist) \/ (hist # <<>> /\ hist' = hist /\ resp'.op = "listFeed")) =>
           /\ Len(resp'.posts) = Min(PageSize, Cardinality(Matching))
           /\ \A i \in DOMAIN resp'.posts :
                  /\ resp'.posts[i] \in posts
                  /\ client.userId # NoUser => resp'.posts[i].userId = client.userId
           /\ \A i \in DOMAIN resp'.posts, j \in DOMAIN resp'.posts :
                  i < j => /\ resp'.posts[i].createdAt >= resp'.posts[j].createdAt
                           /\ MadeBefore(resp'.posts[j], resp'.posts[i])
           /\ resp'.posts # <<>> =>
                  \A q \in Matching \ {resp'.posts[1]} : MadeBefore(q, resp'.posts[1])]_vars

\* the Like rows that are not the actor's on the post it toggles
NotActorsOnPost(L) == {l \in L : l.userId # client.session \/ l.postId # client.postId}

\* C20 (FrameSpec): on a post with N Likes of other users the actor's first
\* toggleLike answers likeCount N + 1 and its second answers N, and at every
\* moment of both calls the Like rows of other users on the post and all Like
\* rows on other posts are the rows there were at the start.
C20_OtherLikesUntouched ==
    /\ NotActorsOnPost(likes) = NotActorsOnPost(client.initialLikes)
    /\ Len(hist) >= 1 =>
           /\ hist[1].liked
           /\ hist[1].likeCount = Cardinality(LikesOf(client.initialLikes, client.postId)) + 1
    /\ Len(hist) = 2 =>
           /\ ~ hist[2].liked
           /\ hist[2].likeCount = Cardinality(LikesOf(client.initialLikes, client.postId))

\* both calls are answered; the post has two Likes of others, and the actor
\* has a Like on the other post
C20_Witness ==
    /\ Len(hist) = 2
    /\ Cardinality(LikesOf(likes, client.postId)) = 2
    /\ \E l \in likes : l.userId = client.session /\ l.postId # client.postId
    /\ nextId.like = 2

\* the answer of a handler that turned the request away at its session check
TurnedAway(op) ==
    /\ resp'.op = op
    /\ resp'.status = 401
    /\ reqs'[1].pc = "idle"
    /\ UNCHANGED store

\* C21 (SeqSpec): each of createPost, updatePost, deletePost, toggleLike,
\* createComment and deleteComment, called without a session, answers 401
\* and leaves the User, Post, Like and Comment rows as they were, whatever
\* its other inputs and whatever the store holds.
C21_UnauthenticatedRefused ==
    [][/\ \A i \in Images, c \in Captions :
              CreatePost(1, NoSession, i, c, 1) => TurnedAway("createPost")
       /\ \A p \in PostIds, c \in Captions :
              UpdatePostFind(1, NoSession, p, c) => TurnedAway("updatePost")
       /\ \A p \in PostIds :
              DeletePostFind(1, NoSession, p) => TurnedAway("deletePost")
       /\ \A p \in PostIds :
              ToggleLikeFindPost(1, NoSession, p) => TurnedAway("toggleLike")
       /\ \A p \in PostIds, c \in Contents :
              CreateCommentFind(1, NoSession, p, c) => TurnedAway("createComment")
       /\ \A c \in CommentIds :
              DeleteCommentFind(1, NoSession, c) => TurnedAway("deleteComment")]_vars

\* an anonymous deleteComment was refused while the post, a Like and the
\* comment it named are in the store
C21_Witness ==
    /\ resp.op = "deleteComment"
    /\ resp.status = 401
    /\ posts # {}
    /\ likes # {}
    /\ comments # {}

\* the answer of a handler that did not find the post
PostNotFound(op) ==
    /\ resp'.op = op
    /\ resp'.status = 404
    /\ reqs'[1].pc = "idle"
    /\ UNCHANGED store

\* C22 (SeqSpec): toggleLike, and createComment with content that is not
\* blank, called by a signed-in actor with a post id that no Post row has,
\* answer 404 and leave the Like and Comment rows (and every other row) as
\* they were.
C22_MissingPostNotFound ==
    [][\A s \in Sessions \ {NoSession}, p \in PostIds :
          (\A x \in posts : x.id # p) =>
              /\ ToggleLikeFindPost(1, s, p) =>
                     PostNotFound("toggleLike") /\ likes' = likes
              /\ \A c \in Contents :
                     (c.t = "string" /\ ~ IsBlank(c.s) /\ CreateCommentFind(1, s, p, c)) =>
                         PostNotFound("createComment") /\ comments' = comments]_vars

\* a user's createComment named a post that had been deleted
C22_Witness ==
    /\ resp.op = "createComment"
    /\ resp.status = 404
    /\ resp.error = "post_not_found"
    /\ nextId.post > 1
    /\ posts = {}

\* C23 (Spec): under every interleaving, a Post row keeps the owner, the
\* image and the creation time it was made with for as long as it exists;
\* the update of updatePost replaces the caption of the one post it names,
\* and leaves every other column, every other post, and all Like and Comment
\* rows as they were.
C23_OwnerAndImageFixed ==
    [][/\ \A p \in posts, q \in posts' :
              p.id = q.id =>
                  /\ q.userId = p.userId
                  /\ q.image = p.image
                  /\ q.createdAt = p.createdAt
       /\ \A r \in Procs :
              (At(r, "updatePost", "update") /\ reqs'[r] # reqs[r]) =>
                  /\ likes' = likes
                  /\ comments' = comments
                  /\ users' = users
                  /\ {q.id : q \in posts'} = {p.id : p \in posts}
                  /\ \A p \in posts, q \in posts' :
                         (p.id = q.id /\ p # q) =>
                             /\ p.id = reqs[r].target
                             /\ q = [p EXCEPT !.caption = q.caption]]_vars

\* the owner has replaced the caption of a post that has a Like and a Comment
C23_Witness ==
    /\ resp.op = "updatePost"
    /\ resp.status = 200
    /\ \E p \in posts :
           /\ p.caption = " c"
           /\ p.image = "/uploads/a.jpg"
           /\ LikesOf(likes, p.id) # {}
           /\ CommentsOf(comments, p.id) # {}

\* C24 (SeqSpec): a successful createPost stores the caption it was given,
\* unaltered, for every caption string, the empty one included, and null for
\* an omitted caption; a successful updatePost leaves the post with exactly
\* the caption it was given, null clearing it.
C24_CaptionStoredAsGiven ==
    [][/\ \A s \in Users, i \in Images, c \in Captions :
              (CreatePost(1, s, i, c, 1) /\ resp'.status = 201) =>
                  \E p \in posts' \ posts : p.caption = c
       /\ (UpdatePostUpdate(1) /\ resp'.status = 200) =>
              PostById(posts', reqs[1].target).caption = reqs[1].caption]_vars

\* C26 (SeqSpec): createComment checks the session first, the content next
\* and the store last: without a session it answers 401 whatever the
\* content and the post id; with a session and content that is not a string,
\* is empty or is only white space it answers 400 and leaves the store as it
\* was, also when the post id names no post or the session has no User row
\* (it never answers 404 then).
C26_ValidatedBeforeLookup ==
    [][\A p \in PostIds, c \in Contents :
          /\ CreateCommentFind(1, NoSession, p, c) =>
                 /\ resp'.op = "createComment" /\ resp'.status = 401
                 /\ reqs'[1].pc = "idle"
                 /\ UNCHANGED store
          /\ \A s \in Sessions \ {NoSession} :
                 ((c.t # "string" \/ IsBlank(c.s)) /\ CreateCommentFind(1, s, p, c)) =>
                     /\ resp'.op = "createComment" /\ resp'.status = 400
                     /\ reqs'[1].pc = "idle"
                     /\ UNCHANGED store]_vars

\* content that is not a usable string was refused with 400 although no
\* post exists
C26_Witness ==
    /\ resp.op = "createComment"
    /\ resp.status = 400
    /\ resp.error = "content_required"
    /\ posts = {}
    /\ nextId.post > 1

\* no Post row has been removed so far (ids are handed out in sequence)
NoPostDeleted == Cardinality(posts) = nextId.post - 1

\* C27 (Spec): of two deletePost requests of the owner on one post, or two
\* deleteComment requests of permitted actors on one comment, that have both
\* passed their checks before either deletes, the one that deletes first
\* answers 200 and removes the row, and the one that then finds the row gone
\* answers 404, never 500.
C27_LosingDeleteNotFound ==
    [][\A r \in Procs :
          /\ (At(r, "deletePost", "delete") /\ reqs'[r].pc = "idle") =>
                 IF PostExists(posts, reqs[r].target)
                 THEN resp'.status = 200 /\ ~ PostExists(posts', reqs[r].target)
                 ELSE resp'.status = 404 /\ UNCHANGED store
          /\ (At(r, "deleteComment", "delete") /\ reqs'[r].pc = "idle" /\ NoPostDeleted) =>
                 IF CommentExists(comments, reqs[r].target)
                 THEN resp'.status = 200 /\ ~ CommentExists(comments', reqs[r].target)
                 ELSE resp'.status = 404 /\ UNCHANGED store]_vars

\* C25 (UserSpec): the step that removes a User row removes, in that same
\* step, every post of the user with all Likes and Comments on those posts,
\* and every Like and Comment of the user on other posts; every other row is
\* left as it was; and from then on no Post, Like or Comment row names a
\* user that has no User row.
C25_UserDeleteCascades ==
    /\ [][\A u \in Users :
             (u \in users /\ u \notin users') =>
                 LET owned == {p.id : p \in {x \in posts : x.userId = u}} IN
                 /\ users' = users \ {u}
                 /\ posts' = {p \in posts : p.userId # u}
                 /\ likes' = {l \in likes : l.userId # u /\ l.postId \notin owned}
                 /\ comments' = {c \in comments : c.userId # u /\ c.postId \notin owned}]_vars
    /\ [](/\ \A p \in posts : p.userId \in users
          /\ \A l \in likes : l.userId \in users
          /\ \A c \in comments : c.userId \in users)

\* u1 is deleted while its like request is in flight; u1 owned the first
\* post, and u2's post keeps u2's Like and Comment
C25_Witness ==
    /\ "u1" \notin users
    /\ "u2" \in users
    /\ {p.id : p \in posts} = {-2}
    /\ \E l \in likes : l.userId = "u2" /\ l.postId = -2
    /\ \E c \in comments : c.userId = "u2" /\ c.postId = -2
    /\ At(1, "toggleLike", "write")
    /\ reqs[1].user = "u1"
    /\ reqs[1].target = -2

\* the creation time of the post the client holds as its cursor
CursorCreatedAt == (CHOOSE p \in client.snapshot : p.id = client.cursor).createdAt

\* the posts of the client's filter that exist and are older than that
OlderThanCursor == {p \in Where(posts, client.userId) : p.createdAt < CursorCreatedAt}

\* C28 (CursorSpec): when the post the client holds as its cursor has been
\* deleted, its next fetch with that cursor still returns the existing posts
\* older than the deleted one: the page is not empty while such posts exist,
\* and the feed is not reported as ended before all of them were returned.
C28_DeletedCursorContinues ==
    [][(hist' # hist /\ client.cursor # 0 /\ ~ PostExists(posts, client.cursor)) =>
          (OlderThanCursor # {} =>
              /\ resp'.posts # <<>>
              /\ resp'.nextCursor = 0 =>
                     \A p \in OlderThanCursor :
                         \E i \in DOMAIN resp'.posts : resp'.posts[i] = p)]_vars

\* what the button showed before the click of the call that settles next
ShownBeforeClick ==
    IF hist = <<>> THEN <<client.initialLiked, client.initialLikeCount>>
    ELSE <<hist[Len(hist)].shownLiked, hist[Len(hist)].shownCount>>

\* C29 (ButtonSpec): a signed-in user's button is loading from the click
\* until its request settles and takes no click meanwhile, so it never has
\* more than one request unsettled; when the request settles the button
\* shows the liked flag and the count of the response if that was a success,
\* and what it showed before the click otherwise.  A visitor's click sends
\* no request and leaves what the button shows as it was.
C29_ButtonFollowsServer ==
    /\ [](/\ Len(client.calls) <= 1
          /\ client.isLoading <=> client.calls # <<>>
          /\ reqs[1].pc # "idle" => client.isLoading
          /\ ~ client.isAuthenticated => (client.calls = <<>> /\ hist = <<>>))
    /\ [][/\ client.isLoading => Len(client'.calls) <= Len(client.calls)
          /\ Len(hist') = Len(hist) + 1 =>
                 LET out == hist'[Len(hist')] IN
                 /\ ~ client'.isLoading
                 /\ IF out.status = 200
                    THEN client'.liked = out.liked /\ client'.likeCount = out.likeCount
                    ELSE <<client'.liked, client'.likeCount>> = ShownBeforeClick
          /\ (~ client.isAuthenticated /\ client' # client) =>
                 /\ client'.liked = client.liked
                 /\ client'.likeCount = client.likeCount
                 /\ UNCHANGED <<store, reqs, hist>>]_vars

\* the first click was answered 200, the owner deleted the post, and the
\* second click, answered 404, was rolled back to what the first had left
C29_Witness ==
    /\ Len(hist) = 2
    /\ hist[1].status = 200
    /\ hist[2].status = 404
    /\ client.liked = hist[1].liked
    /\ client.likeCount = hist[1].likeCount
    /\ client.likeCount # client.initialLikeCount + 1
    /\ ~ client.isLoading

\* C30 (SectionSpec): the list the comment section holds has every comment
\* at most once, and once the form's new comment has been added it is in the
\* list exactly once, also when the list was loaded from the server on the
\* way because it was not expanded and the post had comments.
C30_EachCommentOnce ==
    /\ \A i \in DOMAIN client.comments, j \in DOMAIN client.comments :
           client.comments[i].id = client.comments[j].id => i = j
    /\ (client.pc = "ready" /\ client.newComment.id # 0) =>
           Cardinality({i \in DOMAIN client.comments :
                            client.comments[i].id = client.newComment.id}) = 1

====
